---- MODULE Spec2Model ----
(***************************************************************************)
(* Model of discord/ext/commands/cog.py: the CogMeta class scan, the       *)
(* Cog.listener decorator, Cog.__new__ (per-instance command copies),      *)
(* walk_commands, and _inject / _eject against a dispatch host (the bot).  *)
(*                                                                         *)
(* The command object model (Command / Group) and the host (Bot) are not   *)
(* part of cog.py; they are modelled from their documented contract.       *)
(***************************************************************************)
EXTENDS Integers, Sequences, FiniteSets, Bags, TLC

VARIABLES
    attrs,   \* the class body: the declared attributes, in declaration order
    tags,    \* function object -> its __cog_listener__ / __cog_listener_name__
    klass,   \* the class-level descriptor built by CogMeta.__new__
    heap,    \* command objects: parent link, ordered children, owner (cog)
    cogs,    \* cog instances: __cog_commands__, instance attributes, binding
    bot,     \* the host: command, check, check-once and listener registries
    last     \* the last operation: inputs, host calls made, outcome

vars == <<attrs, tags, klass, heap, cogs, bot, last>>

---------------------------------------------------------------------------
(* Bounds *)

MaxAttrs == 3      \* longest class body explored
MaxInst  == 2      \* cog instances constructed from the class
MaxReg   == 2      \* registrations held by each check / listener registry of the host

---------------------------------------------------------------------------
(* The values a class body can declare.  A value is named by the attribute *)
(* name under which the class body declares it.                            *)

CommandValues  == {"a", "b", "c", "d", "e"}
AsyncValues    == {"on_x", "h", "k", "u"}
SyncValues     == {"s", "bot_check", "bot_check_once"}
Values         == CommandValues \cup AsyncValues \cup SyncValues

\* the order in which a class body declares the values it declares
DeclOrder == <<"a", "b", "c", "e", "d", "bot_check", "bot_check_once",
               "on_x", "h", "k", "u", "s">>

IsCommand(v)           == v \in CommandValues
IsGroup(v)             == v \in {"a", "c"}
IsCoroutineFunction(v) == v \in AsyncValues

NoValue == ""

\* the group a command was declared under (@a.command()), NoValue if none
DeclParent(v) ==
    CASE v = "b" -> "a"
      [] v = "c" -> "a"
      [] v = "e" -> "c"
      [] OTHER   -> NoValue

\* func.__name__ / command.callback.__name__ : k is declared as k = deco(zz)
FuncName(v) == IF v = "k" THEN "zz" ELSE v

\* command.name
CmdName(v) == v

---------------------------------------------------------------------------
(* Optional strings: None is <<>>, the string s is <<s>> *)

None   == <<>>
Str(s) == <<s>>
IsNone(x) == x = <<>>
Truthy(x) == x # <<>> /\ x # <<"">>

ListenerNames == {None, Str(""), Str("on_y")}

Untagged == [set |-> FALSE, name |-> ""]
Tagged(n) == [set |-> TRUE, name |-> n]

Functions == AsyncValues \cup SyncValues

\* the decorator without its coroutine check
ListenerDecoratorUnchecked(name, func, old) ==
    [err |-> "",
     tag |-> Tagged(IF Truthy(name) THEN name[1] ELSE FuncName(func))]

\* Cog.listener(name)(func): the new value of func's listener attributes,
\* and the error raised
ListenerDecorator(name, func, old) ==
    IF ~IsCoroutineFunction(func)
    THEN [err |-> "TypeError", tag |-> old]
    ELSE [err |-> "",
          tag |-> Tagged(IF Truthy(name) THEN name[1] ELSE FuncName(func))]

---------------------------------------------------------------------------
(* CogMeta.__new__ : the scan of the class body *)

RECURSIVE ScanCommandsPrepending(_)
\* the scan with commands.insert(0, value) for commands.append(value)
ScanCommandsPrepending(as) ==
    IF as = <<>> THEN <<>>
    ELSE LET value == Head(as)
             rest  == ScanCommandsPrepending(Tail(as))
         IN  IF IsCommand(value) THEN rest \o <<value>> ELSE rest

RECURSIVE ScanCommands(_)
ScanCommands(as) ==
    IF as = <<>> THEN <<>>
    ELSE LET value == Head(as)
             rest  == ScanCommands(Tail(as))
         IN  IF IsCommand(value) THEN <<value>> \o rest ELSE rest

RECURSIVE ScanListeners(_, _)
ScanListeners(as, tg) ==
    IF as = <<>> THEN <<>>
    ELSE LET value == Head(as)
             rest  == ScanListeners(Tail(as), tg)
         IN  IF IsCommand(value) THEN rest
             ELSE IF IsCoroutineFunction(value)
                  THEN IF ~tg[value].set THEN rest
                       ELSE <<[event |-> tg[value].name,
                               method |-> FuncName(value)]>> \o rest
                  ELSE rest

CogMetaNew(as, tg) ==
    [defined   |-> TRUE,
     commands  |-> ScanCommands(as),
     listeners |-> ScanListeners(as, tg)]

Undefined == [defined |-> FALSE, commands |-> <<>>, listeners |-> <<>>]

---------------------------------------------------------------------------
(* Command objects.  An object is <<owner, value, role>>: the class-level  *)
(* original of a declared command is <<0, v, "orig">>, the copy held by    *)
(* instance i is <<i, v, "copy">>; "stale" and "stale2" are the copies of  *)
(* sub-commands that copying a group makes.  Bound methods of instance i   *)
(* are <<i, v, "method">>, and a plain name used as a key is               *)
(* <<0, n, "name">>.                                                       *)

Orig(v)      == <<0, v, "orig">>
Copy(i, v)   == <<i, v, "copy">>
Stale(i, v)  == <<i, v, "stale">>
Stale2(i, v) == <<i, v, "stale2">>
Method(i, v) == <<i, v, "method">>
Name(n)      == <<0, n, "name">>
NoObj        == <<0, "", "none">>

IsName(x)    == x[3] = "name"
IsMethod(x)  == x[3] = "method"

Range(s) == {s[k] : k \in 1..Len(s)}

RECURSIVE SeqFilter(_, _)
\* the elements of s that are in set S, in the order of s
SeqFilter(s, S) ==
    IF s = <<>> THEN <<>>
    ELSE IF Head(s) \in S THEN <<Head(s)>> \o SeqFilter(Tail(s), S)
         ELSE SeqFilter(Tail(s), S)

\* the commands a class body refers to: those it declares and their groups
NeededCommands(as) ==
    {v \in CommandValues :
        \/ v \in Range(as)
        \/ \E w \in Range(as) :
              IsCommand(w) /\ (DeclParent(w) = v \/ DeclParent(DeclParent(w)) = v)}

\* the sub-commands group g holds once the class body has run: those the
\* body declares, in declaration order, then the others
ClassChildren(as, g) ==
    SeqFilter(as, {v \in CommandValues : DeclParent(v) = g})
    \o SeqFilter(DeclOrder,
                 {v \in NeededCommands(as) \ Range(as) : DeclParent(v) = g})

\* the command objects that exist when the class body has run
ClassHeap(as) ==
    [o \in {Orig(v) : v \in NeededCommands(as)} |->
        [parent   |-> IF DeclParent(o[2]) = NoValue THEN NoObj
                      ELSE Orig(DeclParent(o[2])),
         children |-> [k \in 1..Len(ClassChildren(as, o[2])) |->
                          Orig(ClassChildren(as, o[2])[k])],
         cog      |-> 0]]

RECURSIVE QualifiedName(_, _)
\* command.qualified_name, as the sequence of its words
QualifiedName(hp, o) ==
    IF hp[o].parent = NoObj THEN <<CmdName(o[2])>>
    ELSE QualifiedName(hp, hp[o].parent) \o <<CmdName(o[2])>>

\* command._update_copy(cmd_attrs): a fresh command with the original's
\* declared parent; a group's copy holds fresh copies of its sub-commands
UpdateCopyObjects(hp, i, o) ==
    LET kids  == hp[o].children
        me    == Copy(i, o[2])
        top   == (me :> [parent   |-> hp[o].parent,
                         children |-> [k \in 1..Len(kids) |-> Stale(i, kids[k][2])],
                         cog      |-> 0])
        lvl1  == [s \in {Stale(i, kids[k][2]) : k \in 1..Len(kids)} |->
                    [parent   |-> me,
                     children |-> [k \in 1..Len(hp[Orig(s[2])].children) |->
                                      Stale2(i, hp[Orig(s[2])].children[k][2])],
                     cog      |-> 0]]
        lvl2  == [t \in UNION {{Stale2(i, hp[Orig(kids[k][2])].children[j][2]) :
                                  j \in 1..Len(hp[Orig(kids[k][2])].children)} :
                               k \in 1..Len(kids)} |->
                    [parent   |-> Stale(i, DeclParent(t[2])),
                     children |-> <<>>,
                     cog      |-> 0]]
    IN  top @@ lvl1 @@ lvl2

RECURSIVE CopyAll(_, _, _, _)
\* tuple(c._update_copy(cmd_attrs) for c in cls.__cog_commands__):
\* the heap with the copies added
CopyAll(hp, i, cmds, k) ==
    IF k > Len(cmds) THEN hp
    ELSE CopyAll(UpdateCopyObjects(hp, i, Orig(cmds[k])) @@ hp, i, cmds, k + 1)

\* GroupMixin.remove_command(name): pops the sub-command of that name
GroupRemoveCommand(hp, g, n) ==
    [hp EXCEPT ![g].children =
        SeqFilter(@, {c \in Range(@) : CmdName(c[2]) # n})]

\* GroupMixin.add_command(command): takes over the command as its parent
GroupAddCommand(hp, g, c) ==
    [hp EXCEPT ![c].parent = g, ![g].children = Append(@, c)]

\* the instance keeping the class-level command objects (no copy)
InstanceCommandsShared(i, cmds) == [k \in 1..Len(cmds) |-> Orig(cmds[k])]

\* self.__cog_commands__ of a new instance
InstanceCommands(i, cmds) == [k \in 1..Len(cmds) |-> Copy(i, cmds[k])]

\* the lookup keyed by the command's own name, not its qualified name
LookupByName(hp, cs) ==
    [q \in {<<CmdName(cs[k][2])>> : k \in 1..Len(cs)} |->
        cs[CHOOSE k \in 1..Len(cs) :
              /\ <<CmdName(cs[k][2])>> = q
              /\ \A j \in (k + 1)..Len(cs) : <<CmdName(cs[j][2])>> # q]]

\* lookup = {cmd.qualified_name: cmd for cmd in self.__cog_commands__}
Lookup(hp, cs) ==
    [q \in {QualifiedName(hp, cs[k]) : k \in 1..Len(cs)} |->
        cs[CHOOSE k \in 1..Len(cs) :
              /\ QualifiedName(hp, cs[k]) = q
              /\ \A j \in (k + 1)..Len(cs) : QualifiedName(hp, cs[j]) # q]]

RECURSIVE RelinkDeclaredParent(_, _, _, _)
\* the loop re-adding each copy to its declared parent, not the looked-up one
RelinkDeclaredParent(hp, cs, lookup, k) ==
    IF k > Len(cs) THEN [err |-> "", heap |-> hp]
    ELSE LET command == cs[k]
             parent  == hp[command].parent
         IN  IF parent = NoObj THEN RelinkDeclaredParent(hp, cs, lookup, k + 1)
             ELSE IF QualifiedName(hp, parent) \notin DOMAIN lookup
                  THEN [err |-> "KeyError", heap |-> hp]
                  ELSE LET removed == GroupRemoveCommand(hp, parent, CmdName(command[2]))
                       IN  RelinkDeclaredParent(
                               GroupAddCommand(removed, parent, command),
                               cs, lookup, k + 1)

RECURSIVE Relink(_, _, _, _)
\* the loop of Cog.__new__ over the copies, from position k on
Relink(hp, cs, lookup, k) ==
    IF k > Len(cs) THEN [err |-> "", heap |-> hp]
    ELSE LET command == cs[k]
             parent  == hp[command].parent
         IN  IF parent = NoObj THEN Relink(hp, cs, lookup, k + 1)
             ELSE IF QualifiedName(hp, parent) \notin DOMAIN lookup
                  THEN [err |-> "KeyError", heap |-> hp]
                  ELSE LET latest  == lookup[QualifiedName(hp, parent)]
                           removed == GroupRemoveCommand(hp, latest, CmdName(command[2]))
                       IN  Relink(GroupAddCommand(removed, latest, command),
                                  cs, lookup, k + 1)

\* Cog.__new__: the outcome for a new instance i of the class
CogNew(hp, kl, i) ==
    LET cs     == InstanceCommands(i, kl.commands)
        copied == CopyAll(hp, i, kl.commands, 1)
        linked == Relink(copied, cs, Lookup(copied, cs), 1)
    IN  [err      |-> linked.err,
         heap     |-> linked.heap,
         commands |-> cs,
         dict     |-> [n \in {FuncName(cs[k][2]) : k \in 1..Len(cs)} |->
                          cs[CHOOSE k \in 1..Len(cs) :
                                /\ FuncName(cs[k][2]) = n
                                /\ \A j \in (k + 1)..Len(cs) : FuncName(cs[j][2]) # n]]]

---------------------------------------------------------------------------
(* The host.  An execution context threads the host's registries, the     *)
(* calls made so far and the pending error through an operation.  The     *)
(* fault-th host call of an operation raises (0: no host call faults).    *)

NoErr == [type |-> "", at |-> 0]
Err(t, k) == [type |-> t, at |-> k]

EmptyBot ==
    [commands |-> <<>>, checks |-> EmptyBag, once |-> EmptyBag,
     listeners |-> EmptyBag]

Call(f, x, e) == [fn |-> f, arg |-> x, ev |-> e]

Faults(cx, fault) == Len(cx.calls) + 1 = fault

Raised(cx) == cx.err.type # ""

\* bot.add_command(command): raises when the name is already registered
BotAddCommand(cx, fault, command) ==
    LET calls == Append(cx.calls, Call("add_command", command, ""))
        n     == CmdName(command[2])
    IN  IF Faults(cx, fault)
        THEN [cx EXCEPT !.calls = calls, !.err = Err("HostError", Len(calls))]
        ELSE IF n \in DOMAIN cx.bot.commands
        THEN [cx EXCEPT !.calls = calls, !.err = Err("ClientException", Len(calls))]
        ELSE [cx EXCEPT !.calls = calls, !.bot.commands = (n :> command) @@ @]

\* bot.remove_command(name): pops the entry whose key is `key`, if any
BotRemoveCommand(cx, fault, key) ==
    LET calls == Append(cx.calls, Call("remove_command", key, "")) IN
    IF Faults(cx, fault)
    THEN [cx EXCEPT !.calls = calls, !.err = Err("HostError", Len(calls))]
    ELSE IF IsName(key) /\ key[2] \in DOMAIN cx.bot.commands
    THEN [cx EXCEPT !.calls = calls,
                    !.bot.commands = [m \in DOMAIN @ \ {key[2]} |-> @[m]]]
    ELSE [cx EXCEPT !.calls = calls]

\* bot.add_check(func, call_once=once)
BotAddCheck(cx, fault, func, once) ==
    LET calls == Append(cx.calls, Call("add_check", func, IF once THEN "once" ELSE "")) IN
    IF Faults(cx, fault)
    THEN [cx EXCEPT !.calls = calls, !.err = Err("HostError", Len(calls))]
    ELSE IF once
    THEN [cx EXCEPT !.calls = calls, !.bot.once = @ (+) SetToBag({func})]
    ELSE [cx EXCEPT !.calls = calls, !.bot.checks = @ (+) SetToBag({func})]

\* bot.remove_check(func, call_once=once): removes one registration, if any
BotRemoveCheck(cx, fault, func, once) ==
    LET calls == Append(cx.calls, Call("remove_check", func, IF once THEN "once" ELSE "")) IN
    IF Faults(cx, fault)
    THEN [cx EXCEPT !.calls = calls, !.err = Err("HostError", Len(calls))]
    ELSE IF once
    THEN [cx EXCEPT !.calls = calls, !.bot.once = @ (-) SetToBag({func})]
    ELSE [cx EXCEPT !.calls = calls, !.bot.checks = @ (-) SetToBag({func})]

\* bot.add_listener(func, name): raises when func is not a coroutine function
BotAddListener(cx, fault, func, event) ==
    LET calls == Append(cx.calls, Call("add_listener", func, event)) IN
    IF Faults(cx, fault)
    THEN [cx EXCEPT !.calls = calls, !.err = Err("HostError", Len(calls))]
    ELSE IF ~(IsMethod(func) /\ IsCoroutineFunction(func[2]))
    THEN [cx EXCEPT !.calls = calls, !.err = Err("TypeError", Len(calls))]
    ELSE [cx EXCEPT !.calls = calls,
                    !.bot.listeners = @ (+) SetToBag({<<event, func>>})]

\* bot.remove_listener(func): removes one registration of func, if any
BotRemoveListener(cx, fault, func) ==
    LET calls == Append(cx.calls, Call("remove_listener", func, ""))
        regs  == {r \in BagToSet(cx.bot.listeners) : r[2] = func}
    IN  IF Faults(cx, fault)
        THEN [cx EXCEPT !.calls = calls, !.err = Err("HostError", Len(calls))]
        ELSE IF regs = {}
        THEN [cx EXCEPT !.calls = calls]
        ELSE [cx EXCEPT !.calls = calls,
                        !.bot.listeners = @ (-) SetToBag({CHOOSE r \in regs : TRUE})]

---------------------------------------------------------------------------
(* Attribute lookup on an instance *)

\* getattr(self, n): the instance's own attribute, else the class's, bound
GetAttr(as, cog, i, n) ==
    IF n \in DOMAIN cog.dict THEN [err |-> "", val |-> cog.dict[n]]
    ELSE IF n \in Range(as) THEN [err |-> "", val |-> Method(i, n)]
    ELSE [err |-> "AttributeError", val |-> NoObj]

\* cls.<n> is not Cog.<n>
Overrides(as, n) == n \in Range(as)

---------------------------------------------------------------------------
(* Cog._inject *)

RECURSIVE UndoAdditions(_, _, _, _)
\* for to_undo in self.__cog_commands__[:index]: bot.remove_command(to_undo)
UndoAdditions(cx, fault, undo, k) ==
    IF k > Len(undo) \/ Raised(cx) THEN cx
    ELSE UndoAdditions(BotRemoveCommand(cx, fault, undo[k]), fault, undo, k + 1)

\* the except clause of _inject: undo, then raise e
RollBack(cx, fault, undo) ==
    LET e      == cx.err
        undone == UndoAdditions([cx EXCEPT !.err = NoErr], fault, undo, 1)
    IN  IF Raised(undone) THEN undone ELSE [undone EXCEPT !.err = e]

RECURSIVE InjectCommandsOwningOriginal(_, _, _, _, _)
\* the command loop assigning the owner on the class-level command
InjectCommandsOwningOriginal(st, fault, cs, i, index) ==
    IF index > Len(cs) THEN st
    ELSE LET command == cs[index]
             owned   == [st.heap EXCEPT ![Orig(command[2])].cog = i]
         IN  IF owned[command].parent # NoObj
             THEN InjectCommandsOwningOriginal([st EXCEPT !.heap = owned],
                                               fault, cs, i, index + 1)
             ELSE LET added == BotAddCommand(st.cx, fault, command) IN
                  IF Raised(added)
                  THEN [heap |-> owned,
                        cx   |-> RollBack(added, fault, SubSeq(cs, 1, index - 1))]
                  ELSE InjectCommandsOwningOriginal([heap |-> owned, cx |-> added],
                                                    fault, cs, i, index + 1)

RECURSIVE InjectCommands(_, _, _, _, _)
\* the command loop of _inject, from position index on (1-based)
InjectCommands(st, fault, cs, i, index) ==
    IF index > Len(cs) THEN st
    ELSE LET command == cs[index]
             owned   == [st.heap EXCEPT ![command].cog = i]
         IN  IF owned[command].parent # NoObj
             THEN InjectCommands([st EXCEPT !.heap = owned], fault, cs, i, index + 1)
             ELSE LET added == BotAddCommand(st.cx, fault, command) IN
                  IF Raised(added)
                  THEN [heap |-> owned,
                        cx   |-> RollBack(added, fault, SubSeq(cs, 1, index - 1))]
                  ELSE InjectCommands([heap |-> owned, cx |-> added],
                                      fault, cs, i, index + 1)

\* _inject with call_once=True dropped from the second add_check
InjectChecksNoOnce(cx, fault, as, i) ==
    LET c1 == IF Overrides(as, "bot_check")
              THEN BotAddCheck(cx, fault, Method(i, "bot_check"), FALSE)
              ELSE cx
    IN  IF Raised(c1) THEN c1
        ELSE IF Overrides(as, "bot_check_once")
             THEN BotAddCheck(c1, fault, Method(i, "bot_check_once"), FALSE)
             ELSE c1

\* the two conditional add_check calls of _inject
InjectChecks(cx, fault, as, i) ==
    LET c1 == IF Overrides(as, "bot_check")
              THEN BotAddCheck(cx, fault, Method(i, "bot_check"), FALSE)
              ELSE cx
    IN  IF Raised(c1) THEN c1
        ELSE IF Overrides(as, "bot_check_once")
             THEN BotAddCheck(c1, fault, Method(i, "bot_check_once"), TRUE)
             ELSE c1

RECURSIVE InjectListeners(_, _, _, _, _, _, _)
\* the listener loop of _inject, from position k on
InjectListeners(cx, fault, as, cog, i, ls, k) ==
    IF k > Len(ls) \/ Raised(cx) THEN cx
    ELSE LET got == GetAttr(as, cog, i, ls[k].method) IN
         IF got.err # "" THEN [cx EXCEPT !.err = Err(got.err, 0)]
         ELSE InjectListeners(BotAddListener(cx, fault, got.val, ls[k].event),
                              fault, as, cog, i, ls, k + 1)

\* _inject registering the listeners before the checks
CogInjectListenersFirst(hp, b, as, kl, cog, i, fault) ==
    LET start == [heap |-> hp, cx |-> [bot |-> b, calls |-> <<>>, err |-> NoErr]]
        cmds  == InjectCommands(start, fault, cog.commands, i, 1)
        lsts  == IF Raised(cmds.cx) THEN cmds.cx
                 ELSE InjectListeners(cmds.cx, fault, as, cog, i, kl.listeners, 1)
        chks  == IF Raised(lsts) THEN lsts
                 ELSE InjectChecks(lsts, fault, as, i)
    IN  [heap |-> cmds.heap, cx |-> chks]

\* Cog._inject(bot): the heap and the context when it exits
CogInject(hp, b, as, kl, cog, i, fault) ==
    LET start == [heap |-> hp, cx |-> [bot |-> b, calls |-> <<>>, err |-> NoErr]]
        cmds  == InjectCommands(start, fault, cog.commands, i, 1)
        chks  == IF Raised(cmds.cx) THEN cmds.cx
                 ELSE InjectChecks(cmds.cx, fault, as, i)
        lsts  == IF Raised(chks) THEN chks
                 ELSE InjectListeners(chks, fault, as, cog, i, kl.listeners, 1)
    IN  [heap |-> cmds.heap, cx |-> lsts]

---------------------------------------------------------------------------
(* Cog._eject *)

RECURSIVE EjectCommandsByObject(_, _, _, _, _)
\* the command loop of _eject passing the command, not its name
EjectCommandsByObject(cx, fault, hp, cs, k) ==
    IF k > Len(cs) \/ Raised(cx) THEN cx
    ELSE IF hp[cs[k]].parent # NoObj
         THEN EjectCommandsByObject(cx, fault, hp, cs, k + 1)
         ELSE EjectCommandsByObject(BotRemoveCommand(cx, fault, cs[k]),
                                    fault, hp, cs, k + 1)

RECURSIVE EjectCommands(_, _, _, _, _)
\* the command loop of _eject
EjectCommands(cx, fault, hp, cs, k) ==
    IF k > Len(cs) \/ Raised(cx) THEN cx
    ELSE IF hp[cs[k]].parent # NoObj
         THEN EjectCommands(cx, fault, hp, cs, k + 1)
         ELSE EjectCommands(BotRemoveCommand(cx, fault, Name(CmdName(cs[k][2]))),
                            fault, hp, cs, k + 1)

RECURSIVE EjectListeners(_, _, _, _, _, _, _)
\* the listener loop of _eject
EjectListeners(cx, fault, as, cog, i, ls, k) ==
    IF k > Len(ls) \/ Raised(cx) THEN cx
    ELSE LET got == GetAttr(as, cog, i, ls[k].method) IN
         IF got.err # "" THEN [cx EXCEPT !.err = Err(got.err, 0)]
         ELSE EjectListeners(BotRemoveListener(cx, fault, got.val),
                             fault, as, cog, i, ls, k + 1)

\* the two conditional remove_check calls of _eject
EjectChecks(cx, fault, as, i) ==
    LET c1 == IF Overrides(as, "bot_check")
              THEN BotRemoveCheck(cx, fault, Method(i, "bot_check"), FALSE)
              ELSE cx
    IN  IF Raised(c1) THEN c1
        ELSE IF Overrides(as, "bot_check_once")
             THEN BotRemoveCheck(c1, fault, Method(i, "bot_check_once"), TRUE)
             ELSE c1

\* the finally clause of _eject: self.cog_unload()
CogUnload(cx, i) ==
    [cx EXCEPT !.calls = Append(@, Call("cog_unload", Method(i, "cog_unload"), ""))]

\* the try block of _eject with the error of a failed call dropped
EjectBodySwallowing(hp, b, as, kl, cog, i, fault) ==
    LET start == [bot |-> b, calls |-> <<>>, err |-> NoErr]
        cmds  == EjectCommands(start, fault, hp, cog.commands, 1)
        lsts  == IF Raised(cmds) THEN cmds
                 ELSE EjectListeners(cmds, fault, as, cog, i, kl.listeners, 1)
        chks  == IF Raised(lsts) THEN lsts ELSE EjectChecks(lsts, fault, as, i)
    IN  [chks EXCEPT !.err = NoErr]

\* the try block of _eject
EjectBody(hp, b, as, kl, cog, i, fault) ==
    LET start == [bot |-> b, calls |-> <<>>, err |-> NoErr]
        cmds  == EjectCommands(start, fault, hp, cog.commands, 1)
        lsts  == IF Raised(cmds) THEN cmds
                 ELSE EjectListeners(cmds, fault, as, cog, i, kl.listeners, 1)
    IN  IF Raised(lsts) THEN lsts ELSE EjectChecks(lsts, fault, as, i)

\* _eject with the unload hook after the try block instead of in finally
CogEjectNoFinally(hp, b, as, kl, cog, i, fault) ==
    LET body == EjectBody(hp, b, as, kl, cog, i, fault) IN
    IF Raised(body) THEN body ELSE CogUnload(body, i)

\* Cog._eject(bot): the context when it exits
CogEject(hp, b, as, kl, cog, i, fault) ==
    CogUnload(EjectBody(hp, b, as, kl, cog, i, fault), i)

---------------------------------------------------------------------------
(* Cog.walk_commands *)

RECURSIVE GroupWalk(_, _, _)
\* GroupMixin.walk_commands of group g: its sub-commands from position k
\* on, each followed by its own sub-commands
GroupWalk(hp, g, k) ==
    IF k > Len(hp[g].children) THEN <<>>
    ELSE LET command == hp[g].children[k] IN
         <<command>>
         \o (IF IsGroup(command[2]) THEN GroupWalk(hp, command, 1) ELSE <<>>)
         \o GroupWalk(hp, g, k + 1)

RECURSIVE WalkCommands(_, _, _)
\* what Cog.walk_commands yields, from position k of __cog_commands__ on
WalkCommands(hp, cs, k) ==
    IF k > Len(cs) THEN <<>>
    ELSE <<cs[k]>>
         \o (IF IsGroup(cs[k][2]) THEN GroupWalk(hp, cs[k], 1) ELSE <<>>)
         \o WalkCommands(hp, cs, k + 1)

---------------------------------------------------------------------------
(* State *)

Instances == 1..MaxInst

NoCog == [made |-> FALSE, commands |-> <<>>, dict |-> <<>>, bound |-> FALSE]

NoTags == [f \in Functions |-> Untagged]

\* the tags after the class body has applied its decorators:
\* @Cog.listener() on on_x, @Cog.listener("on_y") on h and on zz (bound to k)
BodyTags ==
    [f \in Functions |->
        CASE f = "on_x" -> Tagged("on_x")
          [] f = "h"    -> Tagged("on_y")
          [] f = "k"    -> Tagged("on_y")
          [] OTHER      -> Untagged]

Op(o, i, x, e, cs, p, w, r) ==
    [op |-> o, self |-> i, arg |-> x, err |-> e, calls |-> cs, pre |-> p,
     was |-> w, result |-> r]

NoOp == Op("", 0, <<>>, NoErr, <<>>, <<>>, FALSE, <<>>)

RECURSIVE Bodies(_, _)
\* the class bodies of at most n attributes drawn from V, no value twice
Bodies(V, n) ==
    IF n = 0 THEN {<<>>}
    ELSE LET shorter == Bodies(V, n - 1) IN
         shorter \cup
         UNION {{Append(b, v) : v \in V \ Range(b)} :
                b \in {x \in shorter : Len(x) = n - 1}}

ClassBodies == Bodies(Values, MaxAttrs)

\* the cog classes whose instances are bound to the host
CogBodies ==
    {<<"a", "b", "c">>,
     <<"a", "b", "d">>,
     <<"d", "bot_check", "on_x">>,
     <<"bot_check_once", "h", "u">>,
     <<"b", "d">>,
     <<"d", "bot_check", "k">>,
     <<"a", "c", "e">>}

\* names under which other extensions register commands on the host
ForeignNames == {"a", "d"}
Foreign(n) == <<0, n, "foreign">>

---------------------------------------------------------------------------
(* Class definition *)

InitMeta ==
    /\ attrs \in ClassBodies
    /\ tags = NoTags
    /\ klass = Undefined
    /\ heap = <<>>
    /\ cogs = [i \in Instances |-> NoCog]
    /\ bot = EmptyBot
    /\ last = NoOp

\* the class body applies Cog.listener(name) to one of its functions
Listener(func, name) ==
    /\ ~klass.defined
    /\ func \in Range(attrs)
    /\ LET r == ListenerDecorator(name, func, tags[func]) IN
       /\ tags' = [tags EXCEPT ![func] = r.tag]
       /\ last' = Op("listener", 0, <<func, name>>, Err(r.err, 0), <<>>,
                     tags[func], FALSE, <<>>)
    /\ UNCHANGED <<attrs, klass, heap, cogs, bot>>

\* the class statement ends: CogMeta.__new__ builds the descriptor
DefineClass ==
    /\ ~klass.defined
    /\ klass' = CogMetaNew(attrs, tags)
    /\ heap' = ClassHeap(attrs)
    /\ last' = Op("class", 0, <<>>, NoErr, <<>>, <<>>, FALSE, <<>>)
    /\ UNCHANGED <<attrs, tags, cogs, bot>>

NextMeta ==
    \/ \E func \in Functions, name \in ListenerNames : Listener(func, name)
    \/ DefineClass

SpecMeta == InitMeta /\ [][NextMeta]_vars

---------------------------------------------------------------------------
(* Instances and the host *)

Init ==
    /\ attrs \in CogBodies
    /\ tags = BodyTags
    /\ klass = CogMetaNew(attrs, tags)
    /\ heap = ClassHeap(attrs)
    /\ cogs = [i \in Instances |-> NoCog]
    /\ bot = EmptyBot
    /\ last = NoOp

\* cls(): instances are numbered in the order they are constructed
Construct(i) ==
    /\ last = NoOp
    /\ ~cogs[i].made
    /\ IF i = 1 THEN TRUE ELSE cogs[i - 1].made
    /\ LET r == CogNew(heap, klass, i) IN
       /\ last' = Op("new", i, <<>>, Err(r.err, 0), <<>>, <<>>, FALSE, <<>>)
       /\ IF r.err # ""
          THEN UNCHANGED <<heap, cogs>>
          ELSE /\ heap' = r.heap
               /\ cogs' = [cogs EXCEPT ![i] =
                    [made |-> TRUE, commands |-> r.commands, dict |-> r.dict,
                     bound |-> FALSE]]
    /\ UNCHANGED <<attrs, tags, klass, bot>>

WithinReg(b) ==
    /\ BagCardinality(b.checks) <= MaxReg
    /\ BagCardinality(b.once) <= MaxReg
    /\ BagCardinality(b.listeners) <= MaxReg

\* cog._inject(bot), the fault-th host call raising
Inject(i, fault) ==
    /\ last = NoOp
    /\ cogs[i].made
    /\ LET r == CogInject(heap, bot, attrs, klass, cogs[i], i, fault) IN
       /\ WithinReg(r.cx.bot)
       /\ heap' = r.heap
       /\ bot' = r.cx.bot
       /\ cogs' = [cogs EXCEPT ![i].bound = IF Raised(r.cx) THEN @ ELSE TRUE]
       /\ last' = Op("inject", i, <<>>, r.cx.err, r.cx.calls, bot,
                     cogs[i].bound, <<>>)
    /\ UNCHANGED <<attrs, tags, klass>>

\* cog._eject(bot), the fault-th host call raising
Eject(i, fault) ==
    /\ last = NoOp
    /\ cogs[i].made
    /\ LET cx == CogEject(heap, bot, attrs, klass, cogs[i], i, fault) IN
       /\ bot' = cx.bot
       /\ cogs' = [cogs EXCEPT ![i].bound = FALSE]
       /\ last' = Op("eject", i, <<fault>>, cx.err, cx.calls, bot,
                     cogs[i].bound, <<>>)
    /\ UNCHANGED <<attrs, tags, klass, heap>>

\* cog._inject(bot) returns and the caller calls cog._eject(bot) at once,
\* the fault-th host call of the _eject raising
Reload(i, fault) ==
    /\ last = NoOp
    /\ cogs[i].made
    /\ LET r  == CogInject(heap, bot, attrs, klass, cogs[i], i, 0)
           cx == CogEject(r.heap, r.cx.bot, attrs, klass, cogs[i], i, fault)
       IN
       /\ ~Raised(r.cx)
       /\ WithinReg(r.cx.bot)
       /\ heap' = r.heap
       /\ bot' = cx.bot
       /\ cogs' = [cogs EXCEPT ![i].bound = FALSE]
       /\ last' = Op("reload", i, <<>>, cx.err, r.cx.calls \o cx.calls, bot,
                     cogs[i].bound, <<>>)
    /\ UNCHANGED <<attrs, tags, klass>>

\* list(cog.walk_commands())
Walk(i) ==
    /\ last = NoOp
    /\ cogs[i].made
    /\ last' = Op("walk", i, <<>>, NoErr, <<>>, <<>>, cogs[i].bound,
                  WalkCommands(heap, cogs[i].commands, 1))
    /\ UNCHANGED <<attrs, tags, klass, heap, cogs, bot>>

\* another extension registers a command of its own on the host
HostAdd(n) ==
    /\ last = NoOp
    /\ n \notin DOMAIN bot.commands
    /\ bot' = [bot EXCEPT !.commands = (n :> Foreign(n)) @@ @]
    /\ last' = Op("host", 0, <<>>, NoErr, <<>>, bot, FALSE, <<>>)
    /\ UNCHANGED <<attrs, tags, klass, heap, cogs>>

\* the caller has taken the outcome of the last operation
Return ==
    /\ last # NoOp
    /\ last' = NoOp
    /\ UNCHANGED <<attrs, tags, klass, heap, cogs, bot>>

MaxFault(as) == Len(as)

Next ==
    \/ \E i \in Instances : Construct(i)
    \/ \E i \in Instances : \E fault \in 0..MaxFault(attrs) : Inject(i, fault)
    \/ \E i \in Instances : \E fault \in 0..MaxFault(attrs) : Eject(i, fault)
    \/ \E i \in Instances : \E fault \in 0..MaxFault(attrs) : Reload(i, fault)
    \/ \E i \in Instances : Walk(i)
    \/ \E n \in ForeignNames : HostAdd(n)
    \/ Return

Spec == Init /\ [][Next]_vars

---------------------------------------------------------------------------
(* Properties *)

Failed == last.err.type # ""

CallsOf(f) == {k \in 1..Len(last.calls) : last.calls[k].fn = f}

\* an add_command call of the last _inject raised: the call that raised is
\* an add_command, or a remove_command of the roll-back that followed it
AddCommandRaised ==
    /\ last.op = "inject"
    /\ Failed
    /\ last.err.at > 0
    /\ last.calls[last.err.at].fn \in {"add_command", "remove_command"}

\* C1: when an add_command call raises during _inject, the host's commands
\* are what they were before the call and the caller gets that add_command
\* error.
C1_RollbackRestoresCommands ==
    AddCommandRaised =>
        /\ bot.commands = last.pre.commands
        /\ last.calls[last.err.at].fn = "add_command"

\* C2: every _eject calls cog_unload exactly once, as its last step, also
\* when an unregistration raised.
C2_UnloadOnceLast ==
    last.op \in {"eject", "reload"} =>
        /\ Cardinality(CallsOf("cog_unload")) = 1
        /\ last.calls[Len(last.calls)].fn = "cog_unload"

\* an _eject in which remove_listener raised after the commands were removed
C2_Witness ==
    /\ last.op = "eject"
    /\ last.err.type = "HostError"
    /\ last.calls[last.err.at].fn = "remove_listener"
    /\ CallsOf("remove_command") # {}

NoRepeats(s) == \A j, k \in 1..Len(s) : j # k => s[j] # s[k]

\* C3: walk_commands yields every command of the cog exactly once; for the
\* class declaring group a with sub-commands b and c it yields a, b, c.
C3_WalkYieldsEachOnce ==
    last.op = "walk" =>
        /\ NoRepeats(last.result)
        /\ attrs = <<"a", "b", "c">> =>
              last.result = <<Copy(last.self, "a"), Copy(last.self, "b"),
                              Copy(last.self, "c")>>

\* C4: when _inject exits with an error, the host's registries are what
\* they were before the call.
C4_InjectAllOrNothing ==
    (last.op = "inject" /\ Failed) => bot = last.pre

\* nothing of instance i is registered on the host
Unbound(i) ==
    /\ \A n \in DOMAIN bot.commands : bot.commands[n][1] # i
    /\ \A x \in BagToSet(bot.checks) \cup BagToSet(bot.once) : x[1] # i
    /\ \A r \in BagToSet(bot.listeners) : r[2][1] # i

\* C5: when _eject has finished on a Bound instance, returning or raising,
\* none of the instance's commands, listeners or checks is registered.
C5_EjectUnbinds ==
    (last.op = "eject" /\ last.was) => Unbound(last.self)

\* C6: a successful _inject followed by a successful _eject leaves the
\* host's command, listener and check registries as they were.
C6_InjectEjectRestores ==
    (last.op = "reload" /\ ~Failed) => bot = last.pre

\* a round trip that registered and unregistered a command, a check and a
\* listener, on a host that held registrations already
C6_Witness ==
    /\ last.op = "reload"
    /\ ~Failed
    /\ CallsOf("add_command") # {}
    /\ CallsOf("add_check") # {}
    /\ CallsOf("add_listener") # {}
    /\ CallsOf("remove_listener") # {}
    /\ bot # EmptyBot

Made == {i \in Instances : cogs[i].made}

\* C7: two instances of the class share no command object with each other
\* or with the class; a command of an instance is owned and linked only
\* within that instance, and the class-level objects stay as declared.
C7_NoSharedCommands ==
    /\ \A i \in Made :
          /\ \A o \in Range(cogs[i].commands) :
                /\ o \notin Range([k \in 1..Len(klass.commands) |->
                                      Orig(klass.commands[k])])
                /\ heap[o].cog \in {0, i}
                /\ heap[o].parent = NoObj \/ heap[o].parent[1] = i
                /\ \A c \in Range(heap[o].children) : c[1] = i
          /\ \A j \in Made \ {i} :
                Range(cogs[i].commands) \cap Range(cogs[j].commands) = {}
    /\ \A o \in DOMAIN ClassHeap(attrs) : heap[o] = ClassHeap(attrs)[o]

\* two instances, the first one's commands owned by it after an _inject,
\* the second one's untouched
C7_Witness ==
    /\ cogs[1].made /\ cogs[2].made
    /\ cogs[1].commands # <<>>
    /\ \A o \in Range(cogs[1].commands) : heap[o].cog = 1
    /\ \A o \in Range(cogs[2].commands) : heap[o].cog = 0
    /\ \E o \in Range(cogs[1].commands) : heap[o].parent # NoObj

OwnChecks(i) ==
    IF Overrides(attrs, "bot_check")
    THEN SetToBag({Method(i, "bot_check")}) ELSE EmptyBag

OwnOnce(i) ==
    IF Overrides(attrs, "bot_check_once")
    THEN SetToBag({Method(i, "bot_check_once")}) ELSE EmptyBag

\* C8: a successful _inject adds bot_check as a per-call check iff the
\* class overrides it and bot_check_once as a call-once check iff the class
\* overrides it, and nothing else; a successful _eject removes those.
C8_ChecksIffOverridden ==
    /\ (last.op = "inject" /\ ~Failed) =>
          /\ bot.checks = last.pre.checks (+) OwnChecks(last.self)
          /\ bot.once = last.pre.once (+) OwnOnce(last.self)
          /\ BagIn(Method(last.self, "bot_check"), bot.checks)
                <=> "bot_check" \in Range(attrs)
          /\ BagIn(Method(last.self, "bot_check_once"), bot.once)
                <=> "bot_check_once" \in Range(attrs)
    /\ (last.op = "eject" /\ ~Failed) =>
          /\ bot.checks = last.pre.checks (-) OwnChecks(last.self)
          /\ bot.once = last.pre.once (-) OwnOnce(last.self)

\* a successful _inject of a cog that overrides bot_check_once only
C8_Witness ==
    /\ last.op = "inject"
    /\ ~Failed
    /\ "bot_check_once" \in Range(attrs)
    /\ "bot_check" \notin Range(attrs)
    /\ BagIn(Method(last.self, "bot_check_once"), bot.once)

Position(s, x) == CHOOSE k \in 1..Len(s) : s[k] = x

\* C9: the class-level command list holds exactly the declared attributes
\* that are commands, each once, in declaration order.
C9_CommandsAreDeclaredCommands ==
    klass.defined =>
        /\ Range(klass.commands) = {v \in Range(attrs) : IsCommand(v)}
        /\ NoRepeats(klass.commands)
        /\ \A j, k \in 1..Len(klass.commands) :
              j < k => Position(attrs, klass.commands[j])
                         < Position(attrs, klass.commands[k])

\* a class with two commands and another attribute declared between them
C9_Witness ==
    /\ klass.defined
    /\ Len(klass.commands) = 2
    /\ Len(attrs) = 3
    /\ ~IsCommand(attrs[2])

C11_RollbackTargetsAdded ==
    (/\ last.op = "inject"
     /\ Failed
     /\ last.err.at > 0
     /\ last.calls[last.err.at].fn = "add_command") =>
        {last.calls[k].arg : k \in CallsOf("remove_command")}
          = {Name(CmdName(last.calls[k].arg[2])) :
                k \in CallsOf("add_command") \ {last.err.at}}

\* C12: from the end of its construction on, every command in an instance's
\* registry has that instance as its owner (command.cog).
C12_CommandsOwnedByInstance ==
    \A i \in Made : \A o \in Range(cogs[i].commands) : heap[o].cog = i

\* the children of group g registered under the name of command o
ChildrenNamed(g, o) ==
    SeqFilter(heap[g].children,
              {c \in Range(heap[g].children) : CmdName(c[2]) = CmdName(o[2])})

\* C13: after construction, at every nesting depth, the parent of a command
\* of the instance's registry is the instance's own copy with the declared
\* parent's qualified name, a member of the registry, and the child that
\* parent holds under the command's name is the instance's copy.
C13_ParentsAreOwnCopies ==
    \A i \in Made : \A o \in Range(cogs[i].commands) :
        DeclParent(o[2]) # NoValue =>
            LET parent == heap[o].parent IN
            /\ parent = Copy(i, DeclParent(o[2]))
            /\ parent \in Range(cogs[i].commands)
            /\ QualifiedName(heap, parent)
                 = QualifiedName(ClassHeap(attrs), Orig(DeclParent(o[2])))
            /\ ChildrenNamed(parent, o) = <<o>>

\* two instances of the class declaring a, its sub-group c and c's
\* sub-command e: commands nested two deep
C13_Witness ==
    /\ attrs = <<"a", "c", "e">>
    /\ cogs[1].made /\ cogs[2].made
    /\ heap[Copy(2, "e")].parent = Copy(2, "c")
    /\ heap[Copy(2, "c")].parent = Copy(2, "a")

\* the declared attributes that are asynchronous callables tagged as
\* listeners, in declaration order
TaggedAttrs ==
    SeqFilter(attrs, {v \in Range(attrs) :
                         ~IsCommand(v) /\ IsCoroutineFunction(v) /\ tags[v].set})

\* C14: the class-level listener sequence holds, in declaration order, one
\* pair (event name, attribute name) for every declared attribute that is
\* an asynchronous callable tagged as a listener, the attribute name being
\* the name the class declares the callable under; untagged asynchronous
\* callables are left out.
C14_ListenerPairsNameAttributes ==
    klass.defined =>
        klass.listeners = [k \in 1..Len(TaggedAttrs) |->
                              [event  |-> tags[TaggedAttrs[k]].name,
                               method |-> TaggedAttrs[k]]]

\* the unregistration call of the last _eject that the host made fail
FailedUnregistration ==
    IF last.op = "eject" /\ last.arg[1] \in 1..(Len(last.calls) - 1)
    THEN last.arg[1] ELSE 0

C16_EjectKeepsOthersCommands ==
    last.op = "eject" =>
        \A n \in DOMAIN last.pre.commands :
            last.pre.commands[n][1] \in Instances \ {last.self} =>
                /\ n \in DOMAIN bot.commands
                /\ bot.commands[n] = last.pre.commands[n]

\* C17: an _inject of an instance that is already Bound leaves the host's
\* commands, checks and listeners as they were, also for a cog without a
\* top-level command.
C17_SecondInjectChangesNothing ==
    (last.op = "inject" /\ last.was) => bot = last.pre

\* C18: the class-level descriptor stays as the class definition made it:
\* constructing, injecting and ejecting instances changes neither the
\* class-level command sequence, nor the class-level listener pairs, nor
\* the parent, children and owner of the class-level command objects.
C18_ClassDescriptorFixed ==
    /\ klass.commands = ScanCommands(attrs)
    /\ klass.listeners = ScanListeners(attrs, tags)
    /\ \A v \in NeededCommands(attrs) :
          /\ heap[Orig(v)].parent = ClassHeap(attrs)[Orig(v)].parent
          /\ heap[Orig(v)].children = ClassHeap(attrs)[Orig(v)].children
          /\ heap[Orig(v)].cog = 0

\* two instances of a class with a group, the first one injected, after an
\* _eject that raised
C18_Witness ==
    /\ cogs[1].made /\ cogs[2].made
    /\ last.op = "eject"
    /\ Failed
    /\ \E v \in Range(attrs) :
          /\ IsGroup(v)
          /\ heap[Copy(1, v)].cog = 1
          /\ heap[Copy(1, v)].children # <<>>

\* the declared commands that have no parent, in declaration order
TopLevelAttrs ==
    SeqFilter(attrs, {v \in Range(attrs) : IsCommand(v) /\ DeclParent(v) = NoValue})

\* the overridden checks: bot_check, then bot_check_once
CheckAttrs ==
    (IF "bot_check" \in Range(attrs) THEN <<"bot_check">> ELSE <<>>)
    \o (IF "bot_check_once" \in Range(attrs) THEN <<"bot_check_once">> ELSE <<>>)

CheckCalls(f, i) ==
    [k \in 1..Len(CheckAttrs) |->
        Call(f, Method(i, CheckAttrs[k]),
             IF CheckAttrs[k] = "bot_check_once" THEN "once" ELSE "")]

\* C19: a successful _inject calls add_command for each top-level command
\* in declaration order (and for no sub-command), then add_check for the
\* overridden checks, then add_listener for each listener in declaration
\* order; an _eject calls remove_command for each top-level command, then
\* remove_listener for every listener, then remove_check for the
\* overridden checks.
C19_HostCallOrder ==
    /\ (last.op = "inject" /\ ~Failed) =>
          last.calls =
             [k \in 1..Len(TopLevelAttrs) |->
                 Call("add_command", Copy(last.self, TopLevelAttrs[k]), "")]
             \o CheckCalls("add_check", last.self)
             \o [k \in 1..Len(TaggedAttrs) |->
                    Call("add_listener", Method(last.self, TaggedAttrs[k]),
                         tags[TaggedAttrs[k]].name)]
    /\ (last.op = "eject" /\ ~Failed) =>
          SubSeq(last.calls, 1, Len(last.calls) - 1) =
             [k \in 1..Len(TopLevelAttrs) |->
                 Call("remove_command", Name(CmdName(TopLevelAttrs[k])), "")]
             \o [k \in 1..Len(TaggedAttrs) |->
                    Call("remove_listener", Method(last.self, TaggedAttrs[k]), "")]
             \o CheckCalls("remove_check", last.self)

\* a successful _inject that registered a command, a check and a listener
C19_Witness ==
    /\ last.op = "inject"
    /\ ~Failed
    /\ Len(last.calls) = 3
    /\ last.calls[1].fn = "add_command"
    /\ last.calls[2].fn = "add_check"
    /\ last.calls[3].fn = "add_listener"

\* the qualified names of the commands of the class-level command list
ListedQualifiedNames ==
    {QualifiedName(ClassHeap(attrs), Orig(v)) : v \in Range(klass.commands)}

\* some listed command declares a parent whose qualified name is not listed
MissingParent ==
    \E v \in Range(klass.commands) :
        /\ DeclParent(v) # NoValue
        /\ QualifiedName(ClassHeap(attrs), Orig(DeclParent(v)))
             \notin ListedQualifiedNames

\* C20: constructing an instance fails with a lookup error, and produces no
\* instance, when a command declares a parent whose qualified name is that
\* of no command of the class-level list; otherwise it succeeds.
C20_MissingParentFailsConstruction ==
    last.op = "new" =>
        IF MissingParent
        THEN /\ last.err.type = "KeyError"
             /\ ~cogs[last.self].made
        ELSE /\ ~Failed
             /\ cogs[last.self].made
             /\ Len(cogs[last.self].commands) = Len(klass.commands)

\* the construction of a cog whose class declares the sub-command b but not
\* its group a
C20_Witness ==
    /\ last.op = "new"
    /\ last.err.type = "KeyError"
    /\ "b" \in Range(attrs)
    /\ "a" \notin Range(attrs)

====
